---- MODULE Spec2Model ----
(***************************************************************************)
(* Model of src/app.py: the per-document extraction pipeline of the Data   *)
(* Label invoice processor (process_pdf with its bounded retries, the      *)
(* batch loop over the uploaded PDFs) and the pure helpers it uses         *)
(* (extract_tracking_number, the JSON extraction of the response text,     *)
(* normalize_field_names), the export of the stored records as a table,    *)
(* and the reruns of the script in one session with its cached data.       *)
(*                                                                         *)
(* Texts are sequences of one-character strings, so that the regular       *)
(* expressions and the JSON decoder are computed character by character.   *)
(* A Python dict is a sequence of <<key, value>> pairs with distinct keys, *)
(* in insertion order; a JSON value is <<tag, characters>>.                *)
(***************************************************************************)
EXTENDS Integers, Sequences, FiniteSets, TLC

VARIABLES
    max_retries,     \* process_pdf's max_retries parameter
    uploaded_files,  \* names of the uploaded files, in upload order
    session_state,   \* st.session_state: data (None or a list), uploaded_file_names
    pc,              \* position of the script
    pdf_files,       \* list built at lines 54-59
    idx,             \* number of the document the batch loop is at (0 before the loop)
    data,            \* list of the records extracted so far (line 197)
    status,          \* per document: "Pending", "Succeeded" or "Failed"
    attempt,         \* loop variable of process_pdf (0-based)
    image_path,      \* local image_path: <<>> while unbound, else <<attempt that bound it>>
    temp_dir,        \* files this call left in temp_dir: temp images, rasterizer outputs
    response,        \* response of the current attempt: kind "unset", "None" or "text"
    result,          \* what process_pdf returned: kind "unset", "None" or "record"
    attempts_made,   \* passes of the loop body entered by this call
    cleanups,        \* os.remove(image_path) calls made by the except branch in this call
    failures,        \* exceptions the except branch of this call has handled
    last_error,      \* the last of them: the stage or parse error that raised it
    failed_stage,    \* all of them: "none", the one stage that failed, or "mixed"
    sleeps,          \* time.sleep(retry_delay) calls made by this call
    made,            \* per local artefact, the attempt whose work it comes from
    errors,          \* the st.error messages of this run: source line and document named
    placeholder,     \* what status_placeholders[0] shows
    file_bytes,      \* per uploaded file, which content it has (getbuffer())
    produced_from,   \* the uploaded files the stored data was extracted from
    stored_partial,  \* the name lists under which a result with a failed document
                     \* is stored, or was stored earlier in the session
    cache_used,      \* whether this run took the "Using cached data" branch
    df,              \* the table this run exports, if any
    fn_in,           \* argument of the pure function under check
    fn_out,          \* its result
    fn_done          \* whether it has been applied

pipeline_vars == <<max_retries, uploaded_files, session_state, pc, pdf_files, idx, data,
                   status, attempt, image_path, temp_dir, response, result, attempts_made,
                   cleanups, failures, last_error, failed_stage, sleeps, made, errors,
                   placeholder, file_bytes, produced_from, stored_partial, cache_used, df>>

fn_vars == <<fn_in, fn_out, fn_done>>

vars == <<pipeline_vars, fn_vars>>

(***************************************************************************)
(* Characters and texts                                                    *)
(***************************************************************************)
UpperChars == {"A", "B", "C", "D", "E", "F", "G", "H", "I", "J", "K", "L", "M", "N", "O",
               "P", "Q", "R", "S", "T", "U", "V", "W", "X", "Y", "Z"}

LowerChars == {"a", "b", "c", "d", "e", "f", "g", "h", "i", "j", "k", "l", "m", "n", "o",
               "p", "q", "r", "s", "t", "u", "v", "w", "x", "y", "z"}

Digits == {"0", "1", "2", "3", "4", "5", "6", "7", "8", "9"}

\* Concatenation of a sequence of texts.
RECURSIVE Concat(_)
Concat(parts) ==
    IF parts = <<>> THEN <<>> ELSE Head(parts) \o Concat(Tail(parts))

\* The element of a one-element set.  Only({e : x \in {v}}) is e with x naming the
\* value of v, which is then computed once however often e uses it.
Only(S) == CHOOSE x \in S : TRUE

Min(S) == CHOOSE x \in S : \A y \in S : x <= y

Max(S) == CHOOSE x \in S : \A y \in S : x >= y

(***************************************************************************)
(* extract_tracking_number (lines 86-89)                                   *)
(***************************************************************************)
\* The number of characters the pattern asks for after the prefix "1Z".
TrackingBodyLen == 16

\* The character class [A-Z0-9] of the pattern.
TrackingClass == UpperChars \cup Digits

\* The sentinel "No Tracking Number Found".
NoTrackingNumberFound ==
    <<"N", "o", " ", "T", "r", "a", "c", "k", "i", "n", "g", " ", "N", "u", "m", "b", "e",
      "r", " ", "F", "o", "u", "n", "d">>

\* Variant of the pattern with a 15-character body.
MutTrackingMatchAt(text, i) ==
    /\ i + TrackingBodyLen <= Len(text)
    /\ text[i] = "1"
    /\ text[i + 1] = "Z"
    /\ \A k \in 2..TrackingBodyLen : text[i + k] \in TrackingClass

\* r'1Z[A-Z0-9]{16}' matches at position i of text.
TrackingMatchAt(text, i) ==
    /\ i + TrackingBodyLen + 1 <= Len(text)
    /\ text[i] = "1"
    /\ text[i + 1] = "Z"
    /\ \A k \in 2..(TrackingBodyLen + 1) : text[i + k] \in TrackingClass

\* re.search: the leftmost position at or after i where the pattern matches, 0 if none.
RECURSIVE TrackingSearch(_, _)
TrackingSearch(text, i) ==
    IF i + TrackingBodyLen + 1 > Len(text) THEN 0
    ELSE IF TrackingMatchAt(text, i) THEN i
    ELSE TrackingSearch(text, i + 1)

\* Variant that returns the whole run of [A-Z0-9] characters after "1Z".
MutExtractTrackingNumber(text) ==
    LET m == TrackingSearch(text, 1)
        run == {e \in (m + TrackingBodyLen + 1)..Len(text) :
                    \A p \in (m + 2)..e : text[p] \in TrackingClass}
    IN  IF m # 0 THEN SubSeq(text, m, Max(run))
        ELSE NoTrackingNumberFound

\* match.group(0) if match else "No Tracking Number Found"
extract_tracking_number(text) ==
    LET m == TrackingSearch(text, 1)
    IN  IF m # 0 THEN SubSeq(text, m, m + TrackingBodyLen + 1)
        ELSE NoTrackingNumberFound

(***************************************************************************)
(* Python dicts: sequences of <<key, value>> pairs, keys distinct          *)
(***************************************************************************)
DictKeys(d) == {d[p][1] : p \in DOMAIN d}

DictHas(d, k) == \E p \in DOMAIN d : d[p][1] = k

\* d[k], for a key the dict has.
DictGet(d, k) == d[CHOOSE p \in DOMAIN d : d[p][1] = k][2]

\* d.get(k, default)
DictGetOr(d, k, default) == IF DictHas(d, k) THEN DictGet(d, k) ELSE default

\* d[k] = v: a new key is appended, an existing key keeps its place.
DictSet(d, k, v) ==
    IF DictHas(d, k)
    THEN [p \in DOMAIN d |-> IF d[p][1] = k THEN <<k, v>> ELSE d[p]]
    ELSE Append(d, <<k, v>>)

\* d1 == d2 in Python: the same keys with the same values, in any order.
DictEq(d1, d2) == {d1[p] : p \in DOMAIN d1} = {d2[p] : p \in DOMAIN d2}

(***************************************************************************)
(* json.loads (line 154), for the JSON this model's texts can hold:        *)
(* objects, strings (a backslash escapes the next character), numbers      *)
(* without exponent, true, false and null.  A nested object is kept as     *)
(* <<"obj", its text>>.                                                    *)
(***************************************************************************)
JsonWhitespace == {" ", "\n", "\t", "\r"}

JsonFail == [ok |-> FALSE, val |-> <<>>, next |-> 0]

\* The first position at or after i that holds no whitespace (Len(s) + 1 if none).
RECURSIVE SkipWs(_, _)
SkipWs(s, i) ==
    IF i <= Len(s) /\ s[i] \in JsonWhitespace THEN SkipWs(s, i + 1) ELSE i

\* The position of the quote closing a string whose content starts at j, 0 if the
\* string is unterminated or holds a raw control character.
RECURSIVE StringEnd(_, _)
StringEnd(s, j) ==
    IF j > Len(s) THEN 0
    ELSE IF s[j] = "\"" THEN j
    ELSE IF s[j] \in {"\n", "\t", "\r"} THEN 0
    ELSE IF s[j] = "\\" THEN StringEnd(s, j + 2)
    ELSE StringEnd(s, j + 1)

\* A string starting at the quote at i.
ParseString(s, i) ==
    LET e == StringEnd(s, i + 1)
    IN  IF e = 0 THEN JsonFail
        ELSE [ok |-> TRUE, val |-> <<"str", SubSeq(s, i + 1, e - 1)>>, next |-> e + 1]

\* The first position at or after i that holds no digit.
RECURSIVE DigitsEnd(_, _)
DigitsEnd(s, i) ==
    IF i <= Len(s) /\ s[i] \in Digits THEN DigitsEnd(s, i + 1) ELSE i

\* A number starting at i: -? (0 | [1-9][0-9]*) (. [0-9]+)?
ParseNumber(s, i) ==
    LET a == IF s[i] = "-" THEN i + 1 ELSE i
        b == IF a <= Len(s) /\ s[a] = "0" THEN a + 1 ELSE DigitsEnd(s, a)
        c == IF b <= Len(s) /\ s[b] = "." THEN DigitsEnd(s, b + 1) ELSE b
    IN  IF b = a \/ (c # b /\ c = b + 1) THEN JsonFail
        ELSE [ok |-> TRUE, val |-> <<"num", SubSeq(s, i, c - 1)>>, next |-> c]

JsonLiterals == {<<"t", "r", "u", "e">>, <<"f", "a", "l", "s", "e">>, <<"n", "u", "l", "l">>}

ParseLiteral(s, i) ==
    IF \E w \in JsonLiterals : i + Len(w) - 1 <= Len(s) /\ SubSeq(s, i, i + Len(w) - 1) = w
    THEN LET w == CHOOSE w \in JsonLiterals :
                      i + Len(w) - 1 <= Len(s) /\ SubSeq(s, i, i + Len(w) - 1) = w
         IN  [ok |-> TRUE, val |-> <<"lit", w>>, next |-> i + Len(w)]
    ELSE JsonFail

RECURSIVE ParseValue(_, _)
RECURSIVE ParseMembers(_, _, _)
RECURSIVE ParseObject(_, _)

\* An object starting at the brace at i: [ok, val (the dict), next].
ParseObject(s, i) ==
    Only({IF j > Len(s) THEN JsonFail
          ELSE IF s[j] = "}" THEN [ok |-> TRUE, val |-> <<>>, next |-> j + 1]
          ELSE ParseMembers(s, j, <<>>)
          : j \in {SkipWs(s, i + 1)}})

\* The members of an object from the key at i on, added to the dict acc: a key, a
\* colon, a value, then a comma and more members or the closing brace.
ParseMembers(s, i, acc) ==
    IF i > Len(s) \/ s[i] # "\"" THEN JsonFail
    ELSE Only({
      IF ~key.ok THEN JsonFail
      ELSE Only({
        IF c > Len(s) \/ s[c] # ":" THEN JsonFail
        ELSE Only({
          IF ~v.ok THEN JsonFail
          ELSE Only({
            IF e > Len(s) THEN JsonFail
            ELSE IF s[e] = "}" THEN [ok |-> TRUE, val |-> d, next |-> e + 1]
            ELSE IF s[e] = "," THEN Only({ParseMembers(s, n, d) : n \in {SkipWs(s, e + 1)}})
            ELSE JsonFail
            : e \in {SkipWs(s, v.next)}, d \in {DictSet(acc, key.val[2], v.val)}})
          : v \in {Only({ParseValue(s, n) : n \in {SkipWs(s, c + 1)}})}})
        : c \in {SkipWs(s, key.next)}})
      : key \in {ParseString(s, i)}})

\* A value starting at i.
ParseValue(s, i) ==
    IF i > Len(s) THEN JsonFail
    ELSE IF s[i] = "\"" THEN ParseString(s, i)
    ELSE IF s[i] = "{" THEN
      Only({IF o.ok THEN [ok |-> TRUE, val |-> <<"obj", SubSeq(s, i, o.next - 1)>>,
                          next |-> o.next]
            ELSE JsonFail
            : o \in {ParseObject(s, i)}})
    ELSE IF s[i] \in Digits \cup {"-"} THEN ParseNumber(s, i)
    ELSE ParseLiteral(s, i)

\* json.loads of a text that starts with "{": [ok, val (the dict)]; ok is FALSE where
\* json.loads raises JSONDecodeError (also for data after the object).
json_loads(s) ==
    Only({IF o.ok /\ SkipWs(s, o.next) = Len(s) + 1
          THEN [ok |-> TRUE, val |-> o.val]
          ELSE [ok |-> FALSE, val |-> <<>>]
          : o \in {Only({IF i <= Len(s) /\ s[i] = "{" THEN ParseObject(s, i) ELSE JsonFail
                         : i \in {SkipWs(s, 1)}})}})

(***************************************************************************)
(* The JSON extraction of the response text (lines 149-156)                *)
(***************************************************************************)
Positions(text, ch) == {i \in DOMAIN text : text[i] = ch}

\* Non-greedy variant: the match ends at the first closing brace after the opening one.
MutJsonMatch(text) ==
    LET opens  == Positions(text, "{")
        closes == Positions(text, "}")
    IN  IF opens = {} \/ {j \in closes : j > Min(opens)} = {} THEN <<>>
        ELSE SubSeq(text, Min(opens), Min({j \in closes : j > Min(opens)}))

\* re.search(r'\{.*\}', response_text, re.DOTALL): the text from the first "{" to the
\* last "}" after it; <<>> when there is no match.
JsonMatch(text) ==
    LET opens  == Positions(text, "{")
        closes == Positions(text, "}")
    IN  IF opens = {} \/ closes = {} \/ Max(closes) < Min(opens) THEN <<>>
        ELSE SubSeq(text, Min(opens), Max(closes))

\* Lines 151-156: the decoded dict, ValueError("No JSON found in the response") or
\* json.JSONDecodeError.
ParseJson(text) ==
    Only({IF json_str = <<>> THEN [kind |-> "NoJSON", val |-> <<>>]
          ELSE Only({IF loaded.ok THEN [kind |-> "ok", val |-> loaded.val]
                     ELSE [kind |-> "JSONDecodeError", val |-> <<>>]
                     : loaded \in {json_loads(json_str)}})
          : json_str \in {JsonMatch(text)}})

(***************************************************************************)
(* normalize_field_names (lines 69-84)                                     *)
(***************************************************************************)
K_INVOICE_DATE ==
    <<"I", "N", "V", "O", "I", "C", "E", "_", "D", "A", "T", "E">>

K_INVOICE_NUMBER ==
    <<"I", "N", "V", "O", "I", "C", "E", "_", "N", "U", "M", "B", "E", "R">>

K_CUSTOMER_PO ==
    <<"C", "U", "S", "T", "O", "M", "E", "R", "_", "P", "O">>

K_SUB_TOTAL ==
    <<"S", "U", "B", "_", "T", "O", "T", "A", "L">>

K_FREIGHT ==
    <<"F", "R", "E", "I", "G", "H", "T">>

K_TOTAL ==
    <<"T", "O", "T", "A", "L">>

K_TRACKING_NUMBER ==
    <<"T", "R", "A", "C", "K", "I", "N", "G", "_", "N", "U", "M", "B", "E", "R">>

K_pdf_file ==
    <<"p", "d", "f", "_", "f", "i", "l", "e">>

field_name_mapping ==
    << <<<<"I", "N", "V", "O", "I", "C", "E", " ", "D", "A", "T", "E">>,
         K_INVOICE_DATE>>,
       <<<<"I", "N", "V", "O", "I", "C", "E", " ", "N", "U", "M", "B", "E", "R">>,
         K_INVOICE_NUMBER>>,
       <<<<"C", "U", "S", "T", ".", " ", "P", "O", "#">>,
         K_CUSTOMER_PO>>,
       <<<<"S", "U", "B", "-", "T", "O", "T", "A", "L", ":">>,
         K_SUB_TOTAL>>,
       <<<<"F", "R", "E", "I", "G", "H", "T", ":">>,
         K_FREIGHT>>,
       <<<<"T", "O", "T", "A", "L", ":">>,
         K_TOTAL>>,
       <<<<"T", "R", "A", "C", "K", "I", "N", "G", "/", "P", "R", "O", " ", "N", "U", "M",
           "B", "E", "R">>,
         K_TRACKING_NUMBER>> >>

\* The characters str.strip() removes, among those of this model's texts.
PyWhitespace == {" ", "\n", "\t", "\r"}

\* str.strip()
Strip(s) ==
    LET kept == {p \in DOMAIN s : s[p] \notin PyWhitespace}
    IN  IF kept = {} THEN <<>> ELSE SubSeq(s, Min(kept), Max(kept))

LowerOrder ==
    <<"a", "b", "c", "d", "e", "f", "g", "h", "i", "j", "k", "l", "m", "n", "o", "p", "q",
      "r", "s", "t", "u", "v", "w", "x", "y", "z">>

UpperOrder ==
    <<"A", "B", "C", "D", "E", "F", "G", "H", "I", "J", "K", "L", "M", "N", "O", "P", "Q",
      "R", "S", "T", "U", "V", "W", "X", "Y", "Z">>

UpperChar(c) ==
    IF c \in LowerChars
    THEN UpperOrder[CHOOSE p \in DOMAIN LowerOrder : LowerOrder[p] = c]
    ELSE c

\* str.upper()
Upper(s) == [p \in DOMAIN s |-> UpperChar(s[p])]

\* Variant that looks the key up without stripping and uppercasing it first.
MutNormalizeKey(key) ==
    DictGetOr(field_name_mapping, key, Upper(Strip(key)))

\* field_name_mapping.get(key.strip().upper(), key.strip().upper())
NormalizeKey(key) ==
    DictGetOr(field_name_mapping, Upper(Strip(key)), Upper(Strip(key)))

\* The loop of lines 81-83 over the items p.. of data_dict, in insertion order.
RECURSIVE NormalizeFrom(_, _, _)
NormalizeFrom(data_dict, p, normalized_dict) ==
    IF p > Len(data_dict) THEN normalized_dict
    ELSE Only({NormalizeFrom(data_dict, p + 1, next_dict)
               : next_dict \in {Only({DictSet(normalized_dict, normalized_key,
                                              data_dict[p][2])
                                      : normalized_key \in
                                            {NormalizeKey(data_dict[p][1])}})}})

normalize_field_names(data_dict) == NormalizeFrom(data_dict, 1, <<>>)

(***************************************************************************)
(* Lines 148-175 of process_pdf: what the parsing stage makes of a         *)
(* response text for the document pdf_file                                 *)
(***************************************************************************)
\* Variant that keeps a tracking number the model supplied and fills it in only when
\* the model gave none.
MutSetTracking(extracted_data, response_text) ==
    IF DictHas(extracted_data, K_TRACKING_NUMBER) THEN extracted_data
    ELSE DictSet(extracted_data, K_TRACKING_NUMBER,
                 <<"str", extract_tracking_number(response_text)>>)

\* Line 162: extracted_data['TRACKING_NUMBER'] = extract_tracking_number(response_text)
SetTracking(extracted_data, response_text) ==
    DictSet(extracted_data, K_TRACKING_NUMBER,
            <<"str", extract_tracking_number(response_text)>>)

\* kind is "ok" with the record process_pdf returns, or the error raised.
ParseStage(response_text, pdf_file) ==
    Only({IF parsed.kind # "ok" THEN [kind |-> parsed.kind, record |-> <<>>]
          ELSE Only({[kind |-> "ok",
                      record |-> Only({DictSet(tracked, K_pdf_file, <<"str", pdf_file>>)
                                       : tracked \in
                                             {SetTracking(normalized, response_text)}})]
                     : normalized \in {normalize_field_names(parsed.val)}})
          : parsed \in {ParseJson(response_text)}})

(***************************************************************************)
(* Inputs of the pipeline                                                  *)
(***************************************************************************)
\* Default of process_pdf's max_retries (line 91).
DefaultMaxRetries == 3

\* max_retries ranges over 0..MaxRetriesBound.
MaxRetriesBound == 3

\* At most MaxDocs files are uploaded.
MaxDocs == 3

\* The name of the i-th document: "a.pdf", "b.pdf", ...
NameOf(i) == <<LowerOrder[i], ".", "p", "d", "f">>

\* The uploads: the first n documents in order, and one upload out of name order.
UploadChoices ==
    {[i \in 1..n |-> NameOf(i)] : n \in 1..MaxDocs} \cup {<<NameOf(2), NameOf(1)>>}

\* Ship 1ZABCDEFGH98765432 {"INVOICE_NUMBER":"7","TRACKING_NUMBER":"1Z12345D6890548740"}
ResponseModelTracking ==
    <<"S", "h", "i", "p", " ", "1", "Z", "A", "B", "C", "D", "E", "F", "G", "H", "9",
      "8", "7", "6", "5", "4", "3", "2", " ", "{", "\"", "I", "N", "V", "O", "I", "C",
      "E", "_", "N", "U", "M", "B", "E", "R", "\"", ":", "\"", "7", "\"", ",", "\"",
      "T", "R", "A", "C", "K", "I", "N", "G", "_", "N", "U", "M", "B", "E", "R", "\"",
      ":", "\"", "1", "Z", "1", "2", "3", "4", "5", "D", "6", "8", "9", "0", "5", "4",
      "8", "7", "4", "0", "\"", "}">>

\* {"Tracking/PRO Number":"PRO77","total:":"9.50"} ok
ResponseAliasTracking ==
    <<"{", "\"", "T", "r", "a", "c", "k", "i", "n", "g", "/", "P", "R", "O", " ", "N",
      "u", "m", "b", "e", "r", "\"", ":", "\"", "P", "R", "O", "7", "7", "\"", ",",
      "\"", "t", "o", "t", "a", "l", ":", "\"", ":", "\"", "9", ".", "5", "0", "\"",
      "}", " ", "o", "k">>

\* {"freight":"2","note":"n/a"}
ResponseNoTracking ==
    <<"{", "\"", "f", "r", "e", "i", "g", "h", "t", "\"", ":", "\"", "2", "\"", ",",
      "\"", "n", "o", "t", "e", "\"", ":", "\"", "n", "/", "a", "\"", "}">>

\* no json here
ResponseNoJson ==
    <<"n", "o", " ", "j", "s", "o", "n", " ", "h", "e", "r", "e">>

\* see {total}: {"TOTAL":"9"}
ResponseBadJson ==
    <<"s", "e", "e", " ", "{", "t", "o", "t", "a", "l", "}", ":", " ", "{", "\"", "T",
      "O", "T", "A", "L", "\"", ":", "\"", "9", "\"", "}">>

\* The response texts the inference endpoint may return (message.content).
ResponseTexts ==
    <<ResponseModelTracking, ResponseAliasTracking, ResponseNoTracking, ResponseNoJson,
      ResponseBadJson>>

\* message.content: one of the texts, or None.
Responses ==
    {[kind |-> "text", i |-> i] : i \in DOMAIN ResponseTexts}
        \cup {[kind |-> "None", i |-> 0]}

NoResponse == [kind |-> "unset", i |-> 0]

\* What the parsing stage makes of each response text for each document name.
ParseTable ==
    [i \in DOMAIN ResponseTexts |->
        [n \in 1..(MaxDocs + 1) |-> ParseStage(ResponseTexts[i], NameOf(n))]]

\* The number of the document named pdf_file.
NameIndex(pdf_file) == CHOOSE n \in 1..(MaxDocs + 1) : NameOf(n) = pdf_file

\* Lines 146-175 for the response r: "ok" with the record, or the error raised
\* (re.search raises TypeError on a None content).
ParseOutcome(r, pdf_file) ==
    IF r.kind = "None" THEN [kind |-> "TypeError", record |-> <<>>]
    ELSE ParseTable[r.i][NameIndex(pdf_file)]

(***************************************************************************)
(* sorted() of a list of names (line 40)                                   *)
(***************************************************************************)
\* The characters of names, in code point order.
CharOrder ==
    <<".", "0", "1", "2", "3", "4", "5", "6", "7", "8", "9">> \o UpperOrder \o <<"_">>
        \o LowerOrder

CharRank(c) == CHOOSE p \in DOMAIN CharOrder : CharOrder[p] = c

\* s <= t as Python compares strings.
RECURSIVE StrLeq(_, _)
StrLeq(s, t) ==
    IF s = <<>> THEN TRUE
    ELSE IF t = <<>> THEN FALSE
    ELSE IF Head(s) = Head(t) THEN StrLeq(Tail(s), Tail(t))
    ELSE CharRank(Head(s)) < CharRank(Head(t))

\* x inserted into the sorted list l, after the elements equal to it.
RECURSIVE InsertSorted(_, _)
InsertSorted(l, x) ==
    IF l = <<>> THEN <<x>>
    ELSE IF StrLeq(Head(l), x) THEN <<Head(l)>> \o InsertSorted(Tail(l), x)
    ELSE <<x>> \o l

\* Variant of sorted() that leaves the list in upload order.
MutSorted(l) == l

\* sorted(l)
RECURSIVE sorted(_)
sorted(l) ==
    IF l = <<>> THEN <<>>
    ELSE Only({InsertSorted(rest, l[Len(l)])
               : rest \in {sorted(SubSeq(l, 1, Len(l) - 1))}})

(***************************************************************************)
(* The export (lines 217-224 and 237-244): pd.DataFrame, reindex, to_csv   *)
(***************************************************************************)
\* Lines 220 and 240
columns_order ==
    <<K_INVOICE_DATE, K_INVOICE_NUMBER, K_CUSTOMER_PO, K_SUB_TOTAL, K_FREIGHT, K_TOTAL,
      K_TRACKING_NUMBER, K_pdf_file>>

\* The cell of a row that has no value for the column.
NaN == <<"nan", <<>>>>

\* The keys of d that are not in columns, in the order of d.
RECURSIVE NewKeys(_, _, _)
NewKeys(d, p, columns) ==
    IF p > Len(d) THEN <<>>
    ELSE IF \E c \in DOMAIN columns : columns[c] = d[p][1]
         THEN NewKeys(d, p + 1, columns)
         ELSE <<d[p][1]>> \o NewKeys(d, p + 1, columns)

\* The columns pd.DataFrame gives a list of dicts: every key, in order of first
\* appearance.
RECURSIVE DataFrameColumns(_, _)
DataFrameColumns(records, n) ==
    IF n = 0 THEN <<>>
    ELSE Only({columns \o NewKeys(records[n], 1, columns)
               : columns \in {DataFrameColumns(records, n - 1)}})

\* pd.DataFrame(records): one row per record, NaN where a record lacks a column.
DataFrame(records) ==
    Only({[columns |-> columns,
           rows |-> [r \in DOMAIN records |->
                        [c \in DOMAIN columns |->
                            DictGetOr(records[r], columns[c], NaN)]]]
          : columns \in {DataFrameColumns(records, Len(records))}})

\* Variant of reindex that leaves the frame as it is.
MutReindex(frame, columns) == frame

\* frame.reindex(columns=columns): exactly these columns in this order, a column the
\* frame does not have being all NaN.
Reindex(frame, columns) ==
    [columns |-> columns,
     rows |-> [r \in DOMAIN frame.rows |->
                  [c \in DOMAIN columns |->
                      IF \E q \in DOMAIN frame.columns : frame.columns[q] = columns[c]
                      THEN frame.rows[r][CHOOSE q \in DOMAIN frame.columns :
                                             frame.columns[q] = columns[c]]
                      ELSE NaN]]]

\* The text to_csv writes for a cell: nothing for NaN.
CsvCell(v) == IF v = NaN THEN <<>> ELSE v[2]

\* frame.to_csv(index=False): the header line and one line of cells per row.
to_csv(frame) ==
    [header |-> frame.columns,
     lines |-> [r \in DOMAIN frame.rows |->
                   [c \in DOMAIN frame.columns |-> CsvCell(frame.rows[r][c])]]]

\* Lines 237-241: the table built from the stored data.
ExportOf(stored) ==
    Only({Reindex(frame, columns_order) : frame \in {DataFrame(stored)}})

(***************************************************************************)
(* The script: cache check, batch loop, process_pdf                        *)
(***************************************************************************)
NoResult == [kind |-> "unset", record |-> <<>>]

ReturnNone == [kind |-> "None", record |-> <<>>]

EmptyTempDir == [images |-> {}, rasters |-> 0]

\* No local of process_pdf is bound yet: images (line 97), the saved temp image
\* (line 103), base64_image (line 107) and response (line 139).
NothingMade == [images |-> -1, image_file |-> -1, base64_image |-> -1, response |-> -1]

\* No table is exported.
NoDataFrame == [columns |-> <<>>, rows |-> <<>>]

\* status_placeholders[0] as st.empty() leaves it.
EmptyPlaceholder == [text |-> "", doc |-> <<>>]

\* The state of a process_pdf call before its first statement.
CallReset ==
    /\ attempt' = 0
    /\ image_path' = <<>>
    /\ temp_dir' = EmptyTempDir
    /\ response' = NoResponse
    /\ cleanups' = 0
    /\ failures' = 0
    /\ last_error' = "none"
    /\ failed_stage' = "none"
    /\ sleeps' = 0
    /\ made' = NothingMade

call_vars == <<attempt, image_path, temp_dir, response, attempts_made, cleanups,
               failures, last_error, failed_stage, sleeps, made>>

\* What a rerun of the script takes over from the runs before it, and what it shows.
session_vars == <<file_bytes, produced_from, stored_partial, cache_used, df>>

batch_vars == <<max_retries, uploaded_files, session_state, pdf_files, idx, data, status,
                session_vars>>

\* Lines 13-17: the session state of a new session.
NewSession == [data_is_none |-> TRUE, data |-> <<>>, uploaded_file_names |-> <<>>]

\* Variant of the cache check that drops the stored data on every run.
MutCacheCheck(session, uploaded) ==
    [data_is_none |-> TRUE, data |-> <<>>, uploaded_file_names |-> sorted(uploaded)]

\* Lines 40-47: the stored data is dropped, and the sorted names of the uploaded
\* files are recorded, when nothing is stored or the names differ from the recorded.
CacheCheck(session, uploaded) ==
    IF session.data_is_none \/ session.uploaded_file_names # sorted(uploaded)
    THEN [data_is_none |-> TRUE, data |-> <<>>, uploaded_file_names |-> sorted(uploaded)]
    ELSE session

\* Variant of the truth test that takes every list, the empty one too, as true.
MutTruthy(l) == TRUE

\* Lines 215 and 234: if data / if st.session_state.data
Truthy(l) == l # <<>>

\* Line 227: st.session_state.data = data
StoreData(session, records) == [session EXCEPT !.data_is_none = FALSE, !.data = records]

\* st.error(f"All retries failed for {pdf_file}") (line 186)
AllRetriesFailed(pdf_file) == [text |-> "All retries failed for", doc |-> pdf_file]

\* st.error("No data was extracted from the uploaded PDFs.") of lines 229 and 258
NoDataExtracted(line) == [text |-> "No data was extracted", doc |-> <<>>, line |-> line]

Init ==
    /\ max_retries \in 0..MaxRetriesBound
    /\ uploaded_files \in UploadChoices
    /\ session_state = NewSession
    /\ pc = "start"
    /\ pdf_files = <<>>
    /\ idx = 0
    /\ data = <<>>
    /\ status = <<>>
    /\ attempt = 0
    /\ image_path = <<>>
    /\ temp_dir = EmptyTempDir
    /\ response = NoResponse
    /\ result = NoResult
    /\ attempts_made = 0
    /\ cleanups = 0
    /\ failures = 0
    /\ last_error = "none"
    /\ failed_stage = "none"
    /\ sleeps = 0
    /\ made = NothingMade
    /\ errors = {}
    /\ placeholder = EmptyPlaceholder
    /\ file_bytes = [i \in DOMAIN uploaded_files |-> 1]
    /\ produced_from = <<>>
    /\ stored_partial = {}
    /\ cache_used = FALSE
    /\ df = NoDataFrame
    /\ fn_in = <<>>
    /\ fn_out = <<>>
    /\ fn_done = FALSE

\* Lines 38-62 and 190-197 on a run that finds no cached data: the uploaded names are
\* recorded, the cache is reset and the batch is set up.
ScriptStart ==
    /\ pc = "start"
    /\ uploaded_files # <<>>
    /\ CacheCheck(session_state, uploaded_files).data_is_none
    /\ session_state' = CacheCheck(session_state, uploaded_files)
    /\ produced_from' = <<>>
    /\ pdf_files' = uploaded_files
    /\ data' = <<>>
    /\ idx' = 0
    /\ status' = [i \in DOMAIN uploaded_files |-> "Pending"]
    /\ errors' = {}
    /\ placeholder' = EmptyPlaceholder
    /\ cache_used' = FALSE
    /\ df' = NoDataFrame
    /\ pc' = "loop"
    /\ UNCHANGED <<max_retries, uploaded_files, file_bytes, stored_partial, result,
                   call_vars, fn_vars>>

\* Lines 200-202 and 94: the loop takes the next document and calls process_pdf,
\* whose loop body is entered unless range(max_retries) is empty.
CallProcessPdf ==
    /\ pc = "loop"
    /\ idx < Len(pdf_files)
    /\ idx' = idx + 1
    /\ CallReset
    /\ IF max_retries > 0
       THEN pc' = "rasterize" /\ result' = NoResult /\ attempts_made' = 1
       ELSE pc' = "returned" /\ result' = ReturnNone /\ attempts_made' = 0
    /\ placeholder' = [text |-> "Processing...", doc |-> pdf_files[idx + 1]]
    /\ UNCHANGED <<max_retries, uploaded_files, session_state, pdf_files, data, status,
                   session_vars, errors, fn_vars>>

\* Variant of the retry test that gives up one attempt early.
MutRetriesRemain(att, retries) == att < retries - 2

\* Line 182: if attempt < max_retries - 1
RetriesRemain(att, retries) == att < retries - 1

\* Variant of the cleanup test that never finds the file.
MutImageExists(path, dir) == FALSE

\* Line 180: 'image_path' in locals() and os.path.exists(image_path)
ImageExists(path, dir) == path # <<>> /\ path[1] \in dir.images

\* Variant in which the delay is taken after every failed attempt, the last too.
MutSlept(n, retrying) == n + 1

\* Lines 182-184: time.sleep(retry_delay) is called when another attempt follows.
Slept(n, retrying) == IF retrying THEN n + 1 ELSE n

\* Variant in which the next attempt resumes at the stage that failed.
MutNextAttemptStage(stage) ==
    IF stage \in {"rasterize", "save", "encode", "request"} THEN stage ELSE "parse"

\* Lines 94-97: the next pass of the loop body starts at convert_from_path, whatever
\* stage raised.
NextAttemptStage(stage) == "rasterize"

\* Summary of the failed stages once stage has failed too.
FailedStageAfter(stage) ==
    IF failed_stage \in {"none", stage} THEN stage ELSE "mixed"

\* Lines 177-187: the except branch, for an exception raised by stage with the files
\* of temp_dir as dir and image_path bound to path.  The temp image is removed if it
\* exists; then the call sleeps and starts the next attempt, or returns None.
Except(stage, path, dir) ==
    /\ image_path' = path
    /\ temp_dir' = IF ImageExists(path, dir)
                   THEN [dir EXCEPT !.images = @ \ {path[1]}]
                   ELSE dir
    /\ cleanups' = IF ImageExists(path, dir) THEN cleanups + 1 ELSE cleanups
    /\ failures' = failures + 1
    /\ last_error' = stage
    /\ failed_stage' = FailedStageAfter(stage)
    /\ response' = NoResponse
    /\ sleeps' = Slept(sleeps, RetriesRemain(attempt, max_retries))
    /\ IF RetriesRemain(attempt, max_retries) /\ attempt + 1 < max_retries
       THEN /\ attempt' = attempt + 1
            /\ attempts_made' = attempts_made + 1
            /\ pc' = NextAttemptStage(stage)
            /\ result' = NoResult
            /\ errors' = errors
       ELSE /\ attempt' = attempt
            /\ attempts_made' = attempts_made
            /\ pc' = "returned"
            /\ result' = ReturnNone
            /\ errors' = errors \cup {AllRetriesFailed(pdf_files[idx])}
    /\ UNCHANGED <<batch_vars, made, placeholder, fn_vars>>

\* Lines 97-98, convert_from_path succeeds: it writes the page as a PNG file of its
\* own into output_folder=temp_dir, which process_pdf never removes.
RasterizeOk ==
    /\ pc = "rasterize"
    /\ temp_dir' = [temp_dir EXCEPT !.rasters = @ + 1]
    /\ made' = [made EXCEPT !.images = attempt]
    /\ pc' = "save"
    /\ UNCHANGED <<batch_vars, attempt, image_path, response, result, attempts_made,
                   cleanups, failures, last_error, failed_stage, sleeps, errors,
                   placeholder, fn_vars>>

\* Lines 97-98 raise (unreadable PDF, no page).
RasterizeFail ==
    /\ pc = "rasterize"
    /\ Except("rasterize", image_path, temp_dir)


\* Lines 101-103, image.save succeeds: image_path is bound and the temp image exists.
SaveOk ==
    /\ pc = "save"
    /\ image_path' = <<attempt>>
    /\ temp_dir' = [temp_dir EXCEPT !.images = @ \cup {attempt}]
    /\ made' = [made EXCEPT !.image_file = made.images]
    /\ pc' = "encode"
    /\ UNCHANGED <<batch_vars, attempt, response, result, attempts_made, cleanups,
                   failures, last_error, failed_stage, sleeps, errors, placeholder,
                   fn_vars>>

\* Line 103 raises after image_path was bound: the file may or may not have been
\* created by then.
SaveFail ==
    /\ pc = "save"
    /\ \E created \in BOOLEAN :
           Except("save", <<attempt>>,
                  IF created THEN [temp_dir EXCEPT !.images = @ \cup {attempt}]
                  ELSE temp_dir)

\* Lines 106-107: the temp image is read and base64-encoded.
EncodeOk ==
    /\ pc = "encode"
    /\ made' = [made EXCEPT !.base64_image = made.image_file]
    /\ pc' = "request"
    /\ UNCHANGED <<batch_vars, attempt, image_path, temp_dir, response, result,
                   attempts_made, cleanups, failures, last_error, failed_stage, sleeps,
                   errors, placeholder, fn_vars>>

EncodeFail ==
    /\ pc = "encode"
    /\ Except("encode", image_path, temp_dir)

\* Lines 110-146: the endpoint answers with some message content.
RequestOk ==
    /\ pc = "request"
    /\ response' \in Responses
    /\ made' = [made EXCEPT !.response = made.base64_image]
    /\ pc' = "parse"
    /\ UNCHANGED <<batch_vars, attempt, image_path, temp_dir, result, attempts_made,
                   cleanups, failures, last_error, failed_stage, sleeps, errors,
                   placeholder, fn_vars>>

\* Lines 139-146 raise (network failure, endpoint error, no choice in the answer).
RequestFail ==
    /\ pc = "request"
    /\ Except("request", image_path, temp_dir)

\* Lines 149-170: the response parses; the record is completed, the temp image is
\* removed and the record is returned.
ParseOk ==
    /\ pc = "parse"
    /\ LET out == ParseOutcome(response, pdf_files[idx])
       IN  /\ out.kind = "ok"
           /\ result' = [kind |-> "record", record |-> out.record]
    /\ temp_dir' = [temp_dir EXCEPT !.images = @ \ {image_path[1]}]
    /\ pc' = "returned"
    /\ UNCHANGED <<batch_vars, attempt, image_path, response, attempts_made, cleanups,
                   failures, last_error, failed_stage, sleeps, made, errors, placeholder,
                   fn_vars>>

\* Variant in which a response that does not parse is final: None is returned at once,
\* without the except branch and without a retry.
MutParseFail ==
    /\ pc = "parse"
    /\ ParseOutcome(response, pdf_files[idx]).kind # "ok"
    /\ result' = ReturnNone
    /\ failures' = failures + 1
    /\ last_error' = ParseOutcome(response, pdf_files[idx]).kind
    /\ pc' = "returned"
    /\ UNCHANGED <<batch_vars, attempt, image_path, temp_dir, response, attempts_made,
                   cleanups, failed_stage, sleeps, made, errors, placeholder, fn_vars>>

\* Lines 151-156 and 172-175 raise: TypeError on a None content, ValueError when no
\* JSON is found, ValueError after json.JSONDecodeError.
ParseFail ==
    /\ pc = "parse"
    /\ LET out == ParseOutcome(response, pdf_files[idx])
       IN  /\ out.kind # "ok"
           /\ Except(out.kind, image_path, temp_dir)

\* Variant of line 205 that puts the newest record first.
MutAppendResult(l, r) == <<r>> \o l

\* Line 205: data.append(result)
AppendResult(l, r) == Append(l, r)

\* Variant in which a document that failed ends the batch: the loop is left.
MutAfterCall ==
    /\ pc = "returned"
    /\ IF result.kind = "record"
       THEN /\ data' = AppendResult(data, result.record)
            /\ status' = [status EXCEPT ![idx] = "Succeeded"]
            /\ idx' = idx
       ELSE /\ data' = data
            /\ status' = [status EXCEPT ![idx] = "Failed"]
            /\ idx' = Len(pdf_files)
    /\ placeholder' = IF result.kind = "record" THEN placeholder
                      ELSE [text |-> "Failed", doc |-> <<>>]
    /\ pc' = "loop"
    /\ UNCHANGED <<max_retries, uploaded_files, session_state, pdf_files, result,
                   session_vars, errors, call_vars, fn_vars>>

\* Lines 204-210: the result of the call is appended, or the document is marked failed.
AfterCall ==
    /\ pc = "returned"
    /\ IF result.kind = "record"
       THEN /\ data' = AppendResult(data, result.record)
            /\ status' = [status EXCEPT ![idx] = "Succeeded"]
            /\ placeholder' = placeholder
       ELSE /\ data' = data
            /\ status' = [status EXCEPT ![idx] = "Failed"]
            /\ placeholder' = [text |-> "Failed", doc |-> <<>>]
    /\ pc' = "loop"
    /\ UNCHANGED <<max_retries, uploaded_files, session_state, pdf_files, idx, result,
                   session_vars, errors, call_vars, fn_vars>>

\* The uploaded files of a run: name and content of each.
Uploaded(names, bytes) == [i \in DOMAIN names |-> [name |-> names[i], bytes |-> bytes[i]]]

\* Lines 234-258, the end of every run with uploaded files: the stored data, if any,
\* is made a table with the columns of columns_order and offered for download;
\* else the empty result is reported.
Export(session, shown) ==
    /\ df' = IF ~session.data_is_none /\ Truthy(session.data)
             THEN ExportOf(session.data)
             ELSE NoDataFrame
    /\ errors' = IF ~session.data_is_none /\ Truthy(session.data)
                 THEN shown
                 ELSE shown \cup {NoDataExtracted(258)}

\* Lines 213-258 for the records and the outcomes of a batch over the uploaded
\* files names, with the messages shown so far: a non-empty list of records is stored
\* in the session state, an empty one is reported; then the export.
FinishBatch(session, names, bytes, records, outcomes, shown) ==
    /\ session_state' = IF Truthy(records) THEN StoreData(session, records) ELSE session
    /\ produced_from' = IF Truthy(records) THEN Uploaded(names, bytes) ELSE <<>>
    /\ stored_partial' =
           IF Truthy(records) /\ \E i \in DOMAIN outcomes : outcomes[i] = "Failed"
           THEN stored_partial \cup {session.uploaded_file_names}
           ELSE stored_partial
    /\ Export(session_state',
              IF Truthy(records) THEN shown ELSE shown \cup {NoDataExtracted(229)})

\* The loop of lines 200-210 is over: lines 213-258 follow.
BatchEnd ==
    /\ pc = "loop"
    /\ idx = Len(pdf_files)
    /\ FinishBatch(session_state, uploaded_files, file_bytes, data, status, errors)
    /\ pc' = "done"
    /\ UNCHANGED <<max_retries, uploaded_files, pdf_files, idx, data, status, result,
                   file_bytes, cache_used, placeholder, call_vars, fn_vars>>

Next ==
    \/ ScriptStart
    \/ CallProcessPdf
    \/ RasterizeOk
    \/ RasterizeFail
    \/ SaveOk
    \/ SaveFail
    \/ EncodeOk
    \/ EncodeFail
    \/ RequestOk
    \/ RequestFail
    \/ ParseOk
    \/ ParseFail
    \/ AfterCall
    \/ BatchEnd

Spec == Init /\ [][Next]_vars

\* The script runs to its end: no statement of it waits for anything.
FairSpec == Spec /\ WF_vars(Next)


(***************************************************************************)
(* extract_tracking_number on its own: applied to a text built from a few  *)
(* chunks                                                                  *)
(***************************************************************************)
\* The pipeline at rest while a pure function is applied.
PipelineIdle ==
    /\ max_retries = DefaultMaxRetries
    /\ uploaded_files = <<>>
    /\ session_state = NewSession
    /\ pc = "idle"
    /\ pdf_files = <<>>
    /\ idx = 0
    /\ data = <<>>
    /\ status = <<>>
    /\ attempt = 0
    /\ image_path = <<>>
    /\ temp_dir = EmptyTempDir
    /\ response = NoResponse
    /\ result = NoResult
    /\ attempts_made = 0
    /\ cleanups = 0
    /\ failures = 0
    /\ last_error = "none"
    /\ failed_stage = "none"
    /\ sleeps = 0
    /\ made = NothingMade
    /\ errors = {}
    /\ placeholder = EmptyPlaceholder
    /\ file_bytes = <<>>
    /\ produced_from = <<>>
    /\ stored_partial = {}
    /\ cache_used = FALSE
    /\ df = NoDataFrame

\* A text is made of at most MaxChunks chunks.
MaxChunks == 3

Prefix1Z == <<"1", "Z">>

\* 16 characters of [A-Z0-9]
Body16 ==
    <<"1", "2", "3", "4", "5", "D", "6", "8", "9", "0", "5", "4", "8", "7", "4", "0">>

\* 16 other characters of [A-Z0-9]
OtherBody16 ==
    <<"A", "B", "C", "D", "E", "F", "G", "H", "9", "8", "7", "6", "5", "4", "3", "2">>

\* 16 lowercase letters
LowerBody16 ==
    <<"a", "b", "c", "d", "e", "f", "g", "h", "i", "j", "k", "l", "m", "n", "o", "p">>

\* 15 characters of [A-Z0-9]
Body15 ==
    <<"1", "2", "3", "4", "5", "D", "6", "8", "9", "0", "5", "4", "8", "7", "4">>

Dots == <<".", ".", ".">>

\* "1Z12345D68905487401": "1Z" and 17 more characters
Example19 ==
    <<"1", "Z", "1", "2", "3", "4", "5", "D", "6", "8", "9", "0", "5", "4", "8", "7", "4",
      "0", "1">>

\* "no such code here"
NoSuchCodeHere ==
    <<"n", "o", " ", "s", "u", "c", "h", " ", "c", "o", "d", "e", " ", "h", "e", "r", "e">>

TrackingChunks ==
    {Prefix1Z, Body16, OtherBody16, LowerBody16, Body15, <<"1">>, <<"a">>, Dots,
     Example19, NoSuchCodeHere}

TrackingInputs ==
    {Concat(parts) : parts \in UNION {[1..n -> TrackingChunks] : n \in 0..MaxChunks}}

InitTracking ==
    /\ PipelineIdle
    /\ fn_in \in TrackingInputs
    /\ fn_out = <<>>
    /\ fn_done = FALSE

ApplyExtractTrackingNumber ==
    /\ ~fn_done
    /\ fn_out' = extract_tracking_number(fn_in)
    /\ fn_done' = TRUE
    /\ UNCHANGED <<pipeline_vars, fn_in>>

NextTracking == ApplyExtractTrackingNumber

SpecTracking == InitTracking /\ [][NextTracking]_vars

(***************************************************************************)
(* Claims about extract_tracking_number                                    *)
(***************************************************************************)
AlnumChars == UpperChars \cup LowerChars \cup Digits

\* text is the word w with only non-alphanumeric characters before and after it.
IsWordInPunctuation(text, w) ==
    \E i \in 1..(Len(text) - Len(w) + 1) :
        /\ SubSeq(text, i, i + Len(w) - 1) = w
        /\ \A p \in DOMAIN text :
               (p < i \/ p > i + Len(w) - 1) => text[p] \notin AlnumChars

\* The positions of text where "1Z" is followed by 16 characters of class.
IdentifiersAt(text, class) ==
    {i \in 1..(Len(text) - 17) :
        /\ SubSeq(text, i, i + 1) = <<"1", "Z">>
        /\ \A p \in (i + 2)..(i + 17) : text[p] \in class}

\* C6 as stated: extract_tracking_number applied to a text containing
\* "1Z12345D68905487401" among non-alphanumeric characters returns
\* "1Z12345D68905487401", and applied to "no such code here" it returns
\* "No Tracking Number Found".
C6_Original ==
    fn_done =>
        /\ IsWordInPunctuation(fn_in, Example19) => fn_out = Example19
        /\ fn_in = NoSuchCodeHere => fn_out = NoTrackingNumberFound

\* C6 amended: on such a text extract_tracking_number returns the first 18 characters
\* of the code, "1Z12345D6890548740" ("1Z" and the 16 characters after it), and on
\* "no such code here" it returns "No Tracking Number Found".
C6_Example ==
    fn_done =>
        /\ IsWordInPunctuation(fn_in, Example19) => fn_out = SubSeq(Example19, 1, 18)
        /\ fn_in = NoSuchCodeHere => fn_out = NoTrackingNumberFound

C6_Witness ==
    /\ fn_done
    /\ fn_in = Dots \o Example19 \o Dots
    /\ fn_out = Prefix1Z \o Body16

MaxProse == 2

\* "ok "
ProseWords == <<"o", "k", " ">>

\* A fence line (the tilde form of a Markdown code fence).
FenceLine == <<"~", "~", "~", "\n">>

ProseChunks == {ProseWords, FenceLine, <<"{">>, <<"}">>}

\* {}
ObjEmpty == <<"{", "}">>

\* {"a":1}
ObjOne == <<"{", "\"", "a", "\"", ":", "1", "}">>

\* {"a":"b","c":2}
ObjTwo ==
    <<"{", "\"", "a", "\"", ":", "\"", "b", "\"", ",", "\"", "c", "\"", ":", "2", "}">>

\* The object {"a": 1} written on three lines.
ObjLines == <<"{", "\n", "\"", "a", "\"", ":", " ", "1", "\n", "}">>

\* {"a":"}"}
ObjBraceInString == <<"{", "\"", "a", "\"", ":", "\"", "}", "\"", "}">>

\* {"a":1,"a":2}
ObjRepeatedKey ==
    <<"{", "\"", "a", "\"", ":", "1", ",", "\"", "a", "\"", ":", "2", "}">>

JsonObjects == {ObjEmpty, ObjOne, ObjTwo, ObjLines, ObjBraceInString, ObjRepeatedKey}

ProseTexts ==
    {Concat(parts) : parts \in UNION {[1..n -> ProseChunks] : n \in 0..MaxProse}}

ParserInputs ==
    {before \o obj \o after : before \in ProseTexts, obj \in JsonObjects,
                              after \in ProseTexts}

InitParser ==
    /\ PipelineIdle
    /\ fn_in \in ParserInputs
    /\ fn_out = <<>>
    /\ fn_done = FALSE

ApplyParseJson ==
    /\ ~fn_done
    /\ fn_out' = ParseJson(fn_in)
    /\ fn_done' = TRUE
    /\ UNCHANGED <<pipeline_vars, fn_in>>

NextParser == ApplyParseJson

SpecParser == InitParser /\ [][NextParser]_vars

(***************************************************************************)
(* Claims about the JSON extraction                                        *)
(***************************************************************************)
\* The spans <<i, j>> of raw that are a well-formed JSON object.
WellFormedObjects(raw) ==
    {span \in Positions(raw, "{") \X Positions(raw, "}") :
        /\ span[1] < span[2]
        /\ json_loads(SubSeq(raw, span[1], span[2])).ok}

\* raw read as: exactly one well-formed JSON object, whatever stands around it.
HasOneObject(raw) == Cardinality(WellFormedObjects(raw)) = 1

TheObject(raw) == Only(WellFormedObjects(raw))

\* The extraction found the object of span in raw and decoded it to the same mapping
\* as decoding that object directly.
RoundTrips(raw, out, span) ==
    /\ out.kind = "ok"
    /\ DictEq(out.val, json_loads(SubSeq(raw, span[1], span[2])).val)

\* C10 as stated: if the raw response contains exactly one well-formed JSON object,
\* with arbitrary prose or fence markup around it, the mapping the parser obtains
\* equals the mapping obtained by decoding that object directly.
C10_Original ==
    (fn_done /\ HasOneObject(fn_in)) => RoundTrips(fn_in, fn_out, TheObject(fn_in))

\* C10 amended: if the raw response contains exactly one well-formed JSON object, and
\* the text around it has no "{" before the object and no "}" after it, the mapping
\* the parser obtains equals the mapping obtained by decoding that object directly.
C10_RoundTrip ==
    (fn_done /\ HasOneObject(fn_in)) =>
        LET span == TheObject(fn_in)
        IN  (/\ \A p \in Positions(fn_in, "{") : p >= span[1]
             /\ \A p \in Positions(fn_in, "}") : p <= span[2])
                => RoundTrips(fn_in, fn_out, span)

\* A fenced object with prose before it, and a closing brace inside a string.
C10_Witness ==
    /\ fn_done
    /\ fn_in = ProseWords \o FenceLine \o ObjBraceInString \o FenceLine
    /\ fn_out.kind = "ok"
    /\ fn_out.val = << <<<<"a">>, <<"str", <<"}">>>>>> >>

(***************************************************************************)
(* Claims about process_pdf and the batch loop                             *)
(***************************************************************************)
Returned == pc = "returned"

ReturnedNone == pc = "returned" /\ result.kind = "None"

ReturnedRecord == pc = "returned" /\ result.kind = "record"

\* C1: for max_retries >= 1 a call never makes more than max_retries attempts; it
\* returns None exactly when every attempt it made failed, and then it made exactly
\* max_retries attempts (3 with the default), after which the document is Failed.
C1_AttemptsBounded ==
    max_retries >= 1 =>
        /\ attempts_made <= max_retries
        /\ Returned => (result.kind = "None" <=> failures = attempts_made)
        /\ ReturnedNone => attempts_made = max_retries
        /\ (ReturnedNone /\ max_retries = DefaultMaxRetries) => attempts_made = 3
        /\ (pc = "loop" /\ idx > 0 /\ result.kind = "None") => status[idx] = "Failed"

C1_Witness ==
    /\ pc = "loop"
    /\ max_retries = DefaultMaxRetries
    /\ idx = 1
    /\ result.kind = "None"
    /\ attempts_made = 3
    /\ failures = 3
    /\ status[1] = "Failed"

\* The names of the documents among the first n that succeeded, in input order.
RECURSIVE SucceededNames(_)
SucceededNames(n) ==
    IF n = 0 THEN <<>>
    ELSE SucceededNames(n - 1)
             \o (IF status[n] = "Succeeded" THEN <<pdf_files[n]>> ELSE <<>>)

\* The pdf_file fields of the records of data, in order.
RecordNames == [k \in DOMAIN data |-> DictGet(data[k], K_pdf_file)[2]]

\* C2: after all documents are processed every document is Succeeded or Failed, and
\* data holds exactly one record for each Succeeded document and none for a Failed
\* one, in input order.
C2_RecordsInInputOrder ==
    pc = "done" =>
        /\ \A i \in DOMAIN pdf_files : status[i] \in {"Succeeded", "Failed"}
        /\ RecordNames = SucceededNames(Len(pdf_files))

\* Three documents, the second failed: two rows, document 1 then document 3.
C2_Witness ==
    /\ pc = "done"
    /\ pdf_files = <<NameOf(1), NameOf(2), NameOf(3)>>
    /\ status = <<"Succeeded", "Failed", "Succeeded">>
    /\ Len(data) = 2
    /\ RecordNames = <<NameOf(1), NameOf(3)>>

\* C3: at each attempt boundary and at return, no temporary raster image created by
\* this call of process_pdf still exists in temp_dir.
C3_NoTempImageLeft ==
    (pc \in {"rasterize", "returned"}) =>
        /\ temp_dir.images = {}
        /\ temp_dir.rasters = 0

AllSettled ==
    /\ pc = "done"
    /\ Len(status) = Len(uploaded_files)
    /\ \A i \in DOMAIN status : status[i] \in {"Succeeded", "Failed"}

\* C4: whatever stages fail, the batch loop terminates with every uploaded document
\* Succeeded or Failed, and a document that exhausted its retries is followed by the
\* next document.
C4_BatchCompletes ==
    /\ <>AllSettled
    /\ [][(ReturnedNone /\ idx < Len(pdf_files)) =>
              /\ pc' = "loop"
              /\ idx' = idx
              /\ status'[idx] = "Failed"
              /\ ~(ENABLED BatchEnd)']_vars

\* The first document failed and the second was processed and succeeded.
C4_Witness ==
    /\ AllSettled
    /\ Len(status) >= 2
    /\ status[1] = "Failed"
    /\ status[2] = "Succeeded"

\* C5: in the record a successful attempt returns, TRACKING_NUMBER is what
\* extract_tracking_number gives for the raw response text (the first "1Z" followed
\* by 16 characters of [A-Z0-9], else the sentinel), whatever the model's JSON gave
\* for it under any name.
C5_TrackingOverwritten ==
    ReturnedRecord =>
        LET text == ResponseTexts[response.i]
            ids  == IdentifiersAt(text, UpperChars \cup Digits)
        IN  /\ DictHas(result.record, K_TRACKING_NUMBER)
            /\ DictGet(result.record, K_TRACKING_NUMBER)
                   = <<"str", IF ids = {} THEN NoTrackingNumberFound
                              ELSE SubSeq(text, Min(ids), Min(ids) + 17)>>

\* The model gave "PRO77" under the alias "Tracking/PRO Number" and the raw text has
\* no match: the field is the sentinel.
C5_Witness ==
    /\ ReturnedRecord
    /\ ResponseTexts[response.i] = ResponseAliasTracking
    /\ DictGet(ParseJson(ResponseAliasTracking).val,
               <<"T", "r", "a", "c", "k", "i", "n", "g", "/", "P", "R", "O", " ", "N",
                 "u", "m", "b", "e", "r">>) = <<"str", <<"P", "R", "O", "7", "7">>>>
    /\ DictGet(result.record, K_TRACKING_NUMBER) = <<"str", NoTrackingNumberFound>>

\* A call that failed on its first two attempts and not on its third, with
\* max_retries = 3.
FailedTwiceThenReturned ==
    /\ Returned
    /\ max_retries = 3
    /\ attempts_made = 3
    /\ failures = 2

\* The stages that run once the temp image has been saved.
StagesAfterSave == {"encode", "request", "TypeError", "NoJSON", "JSONDecodeError"}

\* C8 as stated: such a call returns a record, and the except branch made exactly 2
\* temp-image cleanups, whichever stage failed.
C8_Original ==
    FailedTwiceThenReturned => (result.kind = "record" /\ cleanups = 2)

\* C8 amended: such a call returns a record; the except branch made exactly 2
\* temp-image cleanups when the stage that failed runs after the temp image is saved
\* (encoding, inference, parsing), and none when convert_from_path failed, as no temp
\* image exists then.
C8_CleanupsPerFailedAttempt ==
    FailedTwiceThenReturned =>
        /\ result.kind = "record"
        /\ failed_stage \in StagesAfterSave => cleanups = 2
        /\ failed_stage = "rasterize" => cleanups = 0
        /\ cleanups <= 2

C8_Witness ==
    /\ FailedTwiceThenReturned
    /\ result.kind = "record"
    /\ failed_stage = "request"
    /\ cleanups = 2

\* C9: every exception the except branch handles, whatever stage or parse error
\* raised it, uses up one attempt of the one budget: the call starts the next attempt
\* while attempts remain and returns None once max_retries attempts have failed.
C9_ErrorsAlike ==
    [][failures' = failures + 1 =>
          /\ last_error' \in {"rasterize", "save"} \cup StagesAfterSave
          /\ IF attempt < max_retries - 1
             THEN pc' = "rasterize" /\ attempt' = attempt + 1 /\ result' = NoResult
             ELSE pc' = "returned" /\ result'.kind = "None"
                      /\ failures' = max_retries]_vars

\* Three attempts failed at different stages, the last on JSON that does not decode.
C9_Witness ==
    /\ ReturnedNone
    /\ max_retries = 3
    /\ failures = 3
    /\ failed_stage = "mixed"
    /\ last_error = "JSONDecodeError"

(***************************************************************************)
(* normalize_field_names on its own: applied to a mapping of a few keys    *)
(***************************************************************************)
\* A mapping has at most MaxKeys keys.
MaxKeys == 2

\* "Invoice Date"
KeyInvoiceDateLabel == <<"I", "n", "v", "o", "i", "c", "e", " ", "D", "a", "t", "e">>

\* " total: "
KeyTotalLabelSpaced == <<" ", "t", "o", "t", "a", "l", ":", " ">>

\* "note"
KeyNote == <<"n", "o", "t", "e">>

\* " Note"
KeyNoteSpaced == <<" ", "N", "o", "t", "e">>

\* The keys a mapping may have: canonical names, labels of the alias table in other
\* case and with blanks around them, and labels the table does not know.
KeyPool ==
    {K_INVOICE_DATE, K_TOTAL, K_TRACKING_NUMBER, KeyInvoiceDateLabel,
     KeyTotalLabelSpaced, KeyNote, KeyNoteSpaced, K_pdf_file}

\* The value stored under the p-th key: "1", "2", ...
ValueOf(p) == <<"str", <<CharOrder[p + 2]>>>>

\* The lists of at most MaxKeys distinct keys of KeyPool, in every order.
DistinctKeyLists ==
    {ks \in UNION {[1..n -> KeyPool] : n \in 0..MaxKeys} :
        \A p, q \in DOMAIN ks : p # q => ks[p] # ks[q]}

\* The mappings normalize_field_names is applied to.
NormalizeInputs ==
    {[p \in DOMAIN ks |-> <<ks[p], ValueOf(p)>>] : ks \in DistinctKeyLists}

InitNormalize ==
    /\ PipelineIdle
    /\ fn_in \in NormalizeInputs
    /\ fn_out = <<>>
    /\ fn_done = FALSE

ApplyNormalizeFieldNames ==
    /\ ~fn_done
    /\ fn_out' = normalize_field_names(fn_in)
    /\ fn_done' = TRUE
    /\ UNCHANGED <<pipeline_vars, fn_in>>

NextNormalize == ApplyNormalizeFieldNames

SpecNormalize == InitNormalize /\ [][NextNormalize]_vars

(***************************************************************************)
(* Claims about normalize_field_names                                      *)
(***************************************************************************)
\* The canonical field names: the values of the alias table.
CanonicalFieldNames == {field_name_mapping[p][2] : p \in DOMAIN field_name_mapping}

\* C11: normalize_field_names is idempotent: a mapping whose keys are all canonical
\* field names is returned as an equal mapping, and for every mapping m normalizing
\* normalize_field_names(m) again gives normalize_field_names(m).
C11_Idempotent ==
    fn_done =>
        /\ normalize_field_names(fn_out) = fn_out
        /\ DictKeys(fn_in) \subseteq CanonicalFieldNames => fn_out = fn_in

\* Two labels that normalize to the same name were merged into one key, and
\* normalizing the result again changes nothing.
C11_Witness ==
    /\ fn_done
    /\ fn_in = << <<KeyTotalLabelSpaced, ValueOf(1)>>, <<K_TOTAL, ValueOf(2)>> >>
    /\ fn_out = << <<K_TOTAL, ValueOf(2)>> >>
    /\ normalize_field_names(fn_out) = fn_out

(***************************************************************************)
(* Claims about the export, the messages and the attempts of a run         *)
(***************************************************************************)
\* The run is over and has data stored.
DoneWithData == pc = "done" /\ ~session_state.data_is_none

\* C12: the exported table has exactly the 8 columns INVOICE_DATE, INVOICE_NUMBER,
\* CUSTOMER_PO, SUB_TOTAL, FREIGHT, TOTAL, TRACKING_NUMBER, pdf_file in that order,
\* one row per stored record; a cell holds the record's value for the column and is
\* empty when the record lacks it, and no other key of a record becomes a column.
C12_ExportColumns ==
    DoneWithData =>
        LET stored == session_state.data
            csv == to_csv(df)
            names == <<K_INVOICE_DATE, K_INVOICE_NUMBER, K_CUSTOMER_PO, K_SUB_TOTAL,
                       K_FREIGHT, K_TOTAL, K_TRACKING_NUMBER, K_pdf_file>>
        IN  /\ df.columns = names
            /\ csv.header = names
            /\ Len(csv.lines) = Len(stored)
            /\ \A r \in DOMAIN stored : \A c \in 1..8 :
                   csv.lines[r][c] = IF DictHas(stored[r], names[c])
                                     THEN DictGet(stored[r], names[c])[2]
                                     ELSE <<>>

\* A record with the unmapped key NOTE and without INVOICE_DATE was exported, after
\* one whose JSON had TRACKING_NUMBER before TOTAL.
C12_Witness ==
    /\ DoneWithData
    /\ Len(session_state.data) = 2
    /\ DictKeys(session_state.data[1]) = {K_TRACKING_NUMBER, K_TOTAL, K_pdf_file}
    /\ session_state.data[1][1][1] = K_TRACKING_NUMBER
    /\ DictHas(session_state.data[2], <<"N", "O", "T", "E">>)
    /\ ~DictHas(session_state.data[2], K_INVOICE_DATE)
    /\ Len(df.columns) = 8
    /\ to_csv(df).lines[2][1] = <<>>
    /\ to_csv(df).lines[2][5] = <<"2">>

\* C13: every document that ended Failed has an error message naming it among the
\* messages of the run, whatever max_retries is.
C13_FailedDocumentNamed ==
    \A i \in DOMAIN status :
        status[i] = "Failed" => \E e \in errors : e.doc = pdf_files[i]

\* No document of the run succeeded.
NoneSucceeded == \A i \in DOMAIN status : status[i] = "Failed"

\* C14: when no document of a run succeeded, the run reports the empty result in a
\* message that names no document, exports no table and leaves the stored data None.
C14_EmptyResultReported ==
    (pc = "done" /\ NoneSucceeded) =>
        /\ \E e \in errors : e.text = "No data was extracted" /\ e.doc = <<>>
        /\ df = NoDataFrame
        /\ session_state.data_is_none

\* Two documents failed: each has its own message, and the empty result is reported.
C14_Witness ==
    /\ pc = "done"
    /\ Len(status) = 2
    /\ NoneSucceeded
    /\ AllRetriesFailed(NameOf(1)) \in errors
    /\ AllRetriesFailed(NameOf(2)) \in errors
    /\ NoDataExtracted(229) \in errors
    /\ df = NoDataFrame
    /\ session_state.data_is_none

\* C15: every attempt is a full fresh pass: the page image a stage saves, the
\* encoding it sends and the response it parses were all made in the current
\* attempt, so an attempt after a failed one starts again at convert_from_path.
C15_FreshAttempt ==
    /\ pc = "save" => made.images = attempt
    /\ pc = "encode" => made.image_file = attempt /\ image_path = <<attempt>>
    /\ pc = "request" => made.base64_image = attempt
    /\ pc = "parse" => made.response = attempt
    /\ ReturnedRecord => made.response = attempt
    /\ (pc = "rasterize" /\ attempt > 0) =>
           /\ failures = attempt
           /\ made.images < attempt

\* The third attempt parses its own response; the first two got as far as the
\* request and the parsing.
C15_Witness ==
    /\ pc = "parse"
    /\ attempt = 2
    /\ failures = 2
    /\ made = [images |-> 2, image_file |-> 2, base64_image |-> 2, response |-> 2]
    /\ last_error = "JSONDecodeError"
    /\ failed_stage = "mixed"

\* C16: the delay is taken once between two consecutive attempts of a call and
\* nowhere else: a call has slept once less than it has started attempts, so not
\* after the attempt that succeeded nor after the last failed one, and max_retries - 1
\* times when all its max_retries attempts failed.
C16_OneDelayBetweenAttempts ==
    /\ sleeps = IF attempts_made = 0 THEN 0 ELSE attempts_made - 1
    /\ ReturnedRecord => sleeps = failures
    /\ (ReturnedNone /\ max_retries >= 1) =>
           sleeps = max_retries - 1 /\ sleeps = failures - 1

\* All three attempts failed: two delays.
C16_Witness ==
    /\ ReturnedNone
    /\ max_retries = 3
    /\ failures = 3
    /\ sleeps = 2

(***************************************************************************)
(* The session: reruns of the script with changing uploads.  A rerun is    *)
(* one step; what process_pdf returns for a document is a record or None   *)
(***************************************************************************)
\* The contents a file of a given name may have.
FileContents == {1, 2}

\* At most MaxSessionDocs files are uploaded at a rerun.
MaxSessionDocs == 2

\* What is uploaded at a rerun: the names, in upload order, and the content of each.
SessionUploads ==
    {[names |-> names, bytes |-> bytes] :
        names \in {l \in UploadChoices : Len(l) <= MaxSessionDocs},
        bytes \in UNION {[1..n -> FileContents] : n \in 1..MaxSessionDocs}}

\* What process_pdf(pdf_file) returns: the record of a response that parses, or None
\* once the attempts are used up.
CallResult(pdf_file, kind) ==
    IF kind = "None" THEN ReturnNone
    ELSE [kind |-> "record",
          record |-> ParseOutcome([kind |-> "text", i |-> 1], pdf_file).record]

\* Lines 200-207 over the first n documents: the records of the results that are not
\* None, in order.
RECURSIVE BatchData(_, _)
BatchData(results, n) ==
    IF n = 0 THEN <<>>
    ELSE IF results[n].kind = "record"
         THEN AppendResult(BatchData(results, n - 1), results[n].record)
         ELSE BatchData(results, n - 1)

\* The outcome of each document of a batch with these results.
BatchOutcomes(results) ==
    [i \in DOMAIN results |-> IF results[i].kind = "record" THEN "Succeeded" ELSE "Failed"]

\* The messages of line 186 for the documents that failed.
BatchErrors(names, results) ==
    {AllRetriesFailed(names[i]) : i \in {j \in DOMAIN results : results[j].kind = "None"}}

InitSession ==
    /\ PipelineIdle
    /\ fn_in = <<>>
    /\ fn_out = <<>>
    /\ fn_done = FALSE

\* A rerun that finds nothing stored for the uploaded names (lines 38-258): the batch
\* is processed and its result handled.
RunBatch ==
    /\ pc \in {"idle", "done"}
    /\ \E up \in SessionUploads :
           /\ DOMAIN up.bytes = DOMAIN up.names
           /\ CacheCheck(session_state, up.names).data_is_none
           /\ uploaded_files' = up.names
           /\ file_bytes' = up.bytes
           /\ pdf_files' = up.names
           /\ \E kinds \in [DOMAIN up.names -> {"None", "record"}] :
              \E results \in {[i \in DOMAIN up.names |->
                                   CallResult(up.names[i], kinds[i])]} :
                  /\ data' = BatchData(results, Len(results))
                  /\ status' = BatchOutcomes(results)
                  /\ result' = results[Len(results)]
                  /\ placeholder' =
                         IF results[Len(results)].kind = "None"
                         THEN [text |-> "Failed", doc |-> <<>>]
                         ELSE [text |-> "Processing...", doc |-> up.names[Len(up.names)]]
                  /\ FinishBatch(CacheCheck(session_state, up.names), up.names, up.bytes,
                                 data', status', BatchErrors(up.names, results))
    /\ idx' = Len(pdf_files')
    /\ cache_used' = FALSE
    /\ pc' = "done"
    /\ UNCHANGED <<max_retries, call_vars, fn_vars>>

\* A rerun that finds data stored for the uploaded names (lines 38-49 and 231-258):
\* "Using cached data", and the stored data is exported.
RunCached ==
    /\ pc \in {"idle", "done"}
    /\ \E up \in SessionUploads :
           /\ DOMAIN up.bytes = DOMAIN up.names
           /\ ~CacheCheck(session_state, up.names).data_is_none
           /\ uploaded_files' = up.names
           /\ file_bytes' = up.bytes
           /\ session_state' = CacheCheck(session_state, up.names)
    /\ cache_used' = TRUE
    /\ pdf_files' = <<>>
    /\ data' = <<>>
    /\ status' = <<>>
    /\ idx' = 0
    /\ result' = NoResult
    /\ placeholder' = EmptyPlaceholder
    /\ Export(session_state', {})
    /\ pc' = "done"
    /\ UNCHANGED <<max_retries, produced_from, stored_partial, call_vars, fn_vars>>

\* A rerun with nothing uploaded (line 38 is false): only the session state stays.
RunNoUpload ==
    /\ pc \in {"idle", "done"}
    /\ uploaded_files' = <<>>
    /\ file_bytes' = <<>>
    /\ cache_used' = FALSE
    /\ pdf_files' = <<>>
    /\ data' = <<>>
    /\ status' = <<>>
    /\ idx' = 0
    /\ result' = NoResult
    /\ placeholder' = EmptyPlaceholder
    /\ errors' = {}
    /\ df' = NoDataFrame
    /\ pc' = "done"
    /\ UNCHANGED <<max_retries, session_state, produced_from, stored_partial, call_vars,
                   fn_vars>>

NextSession ==
    \/ RunBatch
    \/ RunCached
    \/ RunNoUpload

SpecSession == InitSession /\ [][NextSession]_vars

(***************************************************************************)
(* Claims about the session                                                *)
(***************************************************************************)
\* The files of an upload, whatever their order.
FileSet(files) == {files[i] : i \in DOMAIN files}

\* C17: whenever a run uses the cached data, the documents uploaded now are the
\* documents the cached data was produced from: a change of the uploaded set makes
\* the pipeline run again.
C17_CacheOnlyForSameDocuments ==
    cache_used =>
        FileSet(Uploaded(uploaded_files, file_bytes)) = FileSet(produced_from)

\* l is in ascending order.
IsAscending(l) == \A i, j \in DOMAIN l : i < j => StrLeq(l[i], l[j])

\* C18: in every session state data is None or a non-empty list of records, and when
\* it is not None uploaded_file_names is the sorted list of the file names of the run
\* that produced it.
C18_SessionStateShape ==
    /\ session_state.data_is_none \/ session_state.data # <<>>
    /\ ~session_state.data_is_none =>
           /\ Len(session_state.uploaded_file_names) = Len(produced_from)
           /\ FileSet(session_state.uploaded_file_names)
                  = {f.name : f \in FileSet(produced_from)}
           /\ IsAscending(session_state.uploaded_file_names)
           /\ \A r \in DOMAIN session_state.data :
                  DictGet(session_state.data[r], K_pdf_file)[2]
                      \in FileSet(session_state.uploaded_file_names)

\* Data produced from b.pdf, a.pdf uploaded in this order is stored under a.pdf, b.pdf.
C18_Witness ==
    /\ ~session_state.data_is_none
    /\ [i \in DOMAIN produced_from |-> produced_from[i].name] = <<NameOf(2), NameOf(1)>>
    /\ session_state.uploaded_file_names = <<NameOf(1), NameOf(2)>>
    /\ Len(session_state.data) = 1

\* The stored result is one in which some document failed.
PartialStored ==
    /\ ~session_state.data_is_none
    /\ Len(session_state.data) < Len(produced_from)

\* The run that just ended processed its documents and all of them failed.
AllFailedRun == pc = "done" /\ pdf_files # <<>> /\ NoneSucceeded

\* After a run in which every document failed, a rerun with the same files processes
\* every document again.
RerunAfterAllFailed ==
    (AllFailedRun /\ uploaded_files' = uploaded_files) =>
        ~cache_used' /\ pdf_files' = uploaded_files'

\* C19 as stated: once a result with a succeeded and a failed document has been
\* stored, every later rerun with the same uploaded file names uses the cached data
\* and attempts no document; after a run in which all documents failed, the next rerun
\* with the same files processes every document again.
C19_Original ==
    /\ [][(uploaded_files' # <<>> /\ sorted(uploaded_files') \in stored_partial) =>
              cache_used' /\ pdf_files' = <<>>]_vars
    /\ [][RerunAfterAllFailed]_vars

\* C19 amended: while a result with a succeeded and a failed document is stored, a
\* rerun with the file names it is stored under uses the cached data, attempts no
\* document and leaves the stored result as it is (a rerun with other names in
\* between drops it); after a run in which all documents failed, the next rerun with
\* the same files processes every document again.
C19_CachedWhileStored ==
    /\ [][(/\ PartialStored
           /\ uploaded_files' # <<>>
           /\ sorted(uploaded_files') = session_state.uploaded_file_names) =>
              /\ cache_used'
              /\ pdf_files' = <<>>
              /\ session_state' = session_state
              /\ produced_from' = produced_from]_vars
    /\ [][RerunAfterAllFailed]_vars

\* A rerun served the stored result of a run in which b.pdf failed: no document was
\* attempted.
C19_Witness ==
    /\ cache_used
    /\ PartialStored
    /\ sorted(uploaded_files) \in stored_partial
    /\ Len(produced_from) = 2
    /\ Len(session_state.data) = 1
    /\ pdf_files = <<>>
    /\ df # NoDataFrame

====
